---------------------------- MODULE Spec2Model ----------------------------
(***************************************************************************)
(* A model of ccmlib/node.py: the log watcher (Node.watch_log_for), the    *)
(* status tracker (Node.__update_status and the operations that set the    *)
(* status and the pid), and Node.start and Node.stop with their waits on   *)
(* the logs of this node and of a peer.                                    *)
(*                                                                         *)
(* A regular expression is modelled by its identity (a number of           *)
(* Patterns) and a log line by the set of patterns that re.search finds in *)
(* it, so e.search(line) is  e \in line.  File offsets count whole lines.  *)
(* Python's None is the empty set where a value is optional (returncode,   *)
(* pid): {} is None, {v} is the value v.                                   *)
(***************************************************************************)
EXTENDS Integers, Sequences, FiniteSets, TLC

\* ------------------------------------------------------------------ bounds
NPat == 2          \* distinct regular expressions
MaxLog == 2        \* lines the log file can hold
MaxTimeout == 1    \* largest timeout argument (in sleeps of one second)
MaxPid == 1        \* process ids 1..MaxPid
NCallers == 2      \* concurrent callers of a status refresh
MaxOwnLog == 1     \* lines this node's own log can hold (the peer's: MaxLog)

Patterns == 1..NPat
Lines == SUBSET Patterns
Pids == 1..MaxPid
Callers == 1..NCallers

\* Sequences over S of length at most n.
BSeq(S, n) == UNION {[1..k -> S] : k \in 0..n}

\* A pattern set given as a list: no pattern twice.
PatternLists == {s \in BSeq(Patterns, NPat) : \A i, j \in 1..Len(s) : s[i] = s[j] => i = j}

Range(s) == {s[i] : i \in 1..Len(s)}

VARIABLES
  \* watch_log_for: arguments
  exprs,        \* the patterns, as the list the caller gave
  isStr,        \* isinstance(exprs, basestring): one pattern given as a scalar
  from_mark,    \* the mark (0 stands for None as well: both are falsy)
  timeout,
  process,      \* TRUE when a process handle is given
  \* watch_log_for: environment
  logExists,    \* os.path.exists(self.logfilename())
  log,          \* the lines of the log file
  exitCode,     \* the exit code of the process: {} while it runs
  \* watch_log_for: locals
  returncode,   \* process.returncode as the last poll() left it
  wpc,          \* where the call is
  fpos,         \* the file position, in lines
  tofind,
  matchings,
  reads,        \* the lines read so far (their numbers)
  elapsed,
  eofPolls,     \* history: the polls that found no line
  outcome,      \* how the call ended
  result,       \* the list returned
  missing,      \* the patterns a TimeoutError reports
  \* the node
  status,
  pid,
  conf,         \* node.conf as last written
  procs,        \* per pid, what os.kill(pid, 0) does
  pidfile,      \* cassandra.pid
  last,         \* history: the last operation on the node
  confirmed,    \* history: a probe of the recorded pid has succeeded since it was set
  ret,          \* what the last is_running() or is_live() returned
  call,         \* the call of start() or stop() in progress, or the last one
  \* the cluster
  other,        \* the log file that is not in view (log is the one in view)
  thr           \* concurrent callers of __update_status: where each one is

watchVars == <<exprs, isStr, from_mark, timeout, process, logExists, log, exitCode,
               returncode, wpc, fpos, tofind, matchings, reads, elapsed, eofPolls,
               outcome, result, missing>>
nodeVars == <<status, pid, conf, procs, pidfile, last, confirmed, ret, call>>
moreVars == <<other, thr>>
vars == <<watchVars, nodeVars, moreVars>>

\* ------------------------------------------------------------------ Status
UNINITIALIZED == "UNINITIALIZED"
UP == "UP"
DOWN == "DOWN"
DECOMMISIONNED == "DECOMMISIONNED"
Status == {UNINITIALIZED, UP, DOWN, DECOMMISIONNED}

\* ---------------------------------------------------------- watch_log_for
\* list.remove(e): the list without the first element equal to e.
RECURSIVE Remove(_, _)
Remove(s, e) ==
  IF s = <<>> THEN <<>>
  ELSE IF Head(s) = e THEN Tail(s)
  ELSE <<Head(s)>> \o Remove(Tail(s), e)

\* A faulty search loop: the "if m" test is lost.
RECURSIVE SearchLineNoTest(_, _, _, _, _)
SearchLineNoTest(tf, ms, n, line, i) ==
  IF i > Len(tf) THEN [tofind |-> tf, matchings |-> ms, returned |-> FALSE]
  ELSE LET e == tf[i]
           tf2 == Remove(tf, e)
           ms2 == Append(ms, [line |-> n, pat |-> e])
       IN IF Len(tf2) = 0
          THEN [tofind |-> tf2, matchings |-> ms2, returned |-> TRUE]
          ELSE SearchLineNoTest(tf2, ms2, n, line, i + 1)

\* "for e in tofind: ..." on line number n, whose content is line, from the
\* list iterator's index i (1-based). The iterator goes on to index i + 1 of the list as it
\* is then, also after tofind.remove(e) has shifted the rest one place down.
RECURSIVE SearchLine(_, _, _, _, _)
SearchLine(tf, ms, n, line, i) ==
  IF i > Len(tf) THEN [tofind |-> tf, matchings |-> ms, returned |-> FALSE]
  ELSE LET e == tf[i] IN
       IF e \in line
       THEN LET tf2 == Remove(tf, e)
                ms2 == Append(ms, [line |-> n, pat |-> e])
            IN IF Len(tf2) = 0
               THEN [tofind |-> tf2, matchings |-> ms2, returned |-> TRUE]
               ELSE SearchLine(tf2, ms2, n, line, i + 1)
       ELSE SearchLine(tf, ms, n, line, i + 1)

\* "elapsed = elapsed + 1"
Tick(e) == e + 1

\* A faulty deadline test: >= for >.
ExpiredEarly(e, t) == e >= t
\* "if elapsed > timeout"
Expired(e, t) == e > t

\* A faulty exit code test: the comparison reversed.
FailedReversed(rc) == rc = {0}
\* "process.returncode is not None" and "process.returncode != 0"
Failed(rc) == rc # {} /\ rc # {0}

\* process.poll(): returncode becomes the exit code once the process has exited.
Poll == IF process THEN exitCode ELSE returncode

WInit ==
  /\ exprs \in PatternLists
  /\ isStr \in BOOLEAN
  /\ isStr => Len(exprs) = 1
  /\ timeout \in 0..MaxTimeout
  /\ process \in BOOLEAN
  /\ logExists \in BOOLEAN
  /\ log \in BSeq(Lines, MaxLog)
  /\ ~logExists => log = <<>>
  /\ from_mark \in 0..Len(log)
  /\ exitCode = {}
  /\ returncode = {}
  /\ wpc = "start"
  /\ fpos = 0
  /\ tofind = <<>>
  /\ matchings = <<>>
  /\ reads = <<>>
  /\ elapsed = 0
  /\ eofPolls = 0
  /\ outcome = "pending"
  /\ result = <<>>
  /\ missing = <<>>

\* Lines 255-261: the locals, and "if len(tofind) == 0: return None".
Begin ==
  /\ wpc = "start"
  /\ tofind' = exprs
  /\ IF Len(exprs) = 0
     THEN wpc' = "done" /\ outcome' = "None"
     ELSE wpc' = "wait_file" /\ UNCHANGED outcome
  /\ UNCHANGED <<exprs, isStr, from_mark, timeout, process, logExists, log, exitCode,
                 returncode, fpos, matchings, reads, elapsed, eofPolls, result, missing>>

\* Lines 263-274: one test of "while not os.path.exists(...)": either one turn of
\* the loop (sleep, poll, raise on a non-zero exit code), or the file is opened
\* and the position set to the mark.
WaitFile ==
  /\ wpc = "wait_file"
  /\ IF ~logExists
     THEN /\ returncode' = Poll
          /\ IF process /\ Failed(returncode')
             THEN wpc' = "done" /\ outcome' = "RuntimeError"
             ELSE UNCHANGED <<wpc, outcome>>
          /\ UNCHANGED fpos
     ELSE /\ fpos' = from_mark
          /\ wpc' = "top"
          /\ UNCHANGED <<returncode, outcome>>
  /\ UNCHANGED <<exprs, isStr, from_mark, timeout, process, logExists, log, exitCode,
                 tofind, matchings, reads, elapsed, eofPolls, result, missing>>

\* Lines 277-283: the check of the process at the top of the read loop.
CheckTop ==
  /\ wpc = "top"
  /\ returncode' = Poll
  /\ IF process /\ Failed(returncode')
     THEN wpc' = "done" /\ outcome' = "RuntimeError"
     ELSE wpc' = "read" /\ UNCHANGED outcome
  /\ UNCHANGED <<exprs, isStr, from_mark, timeout, process, logExists, log, exitCode,
                 fpos, tofind, matchings, reads, elapsed, eofPolls, result, missing>>

\* Lines 285-300: readline, then the search loop or the sleep and the deadline.
ReadLine ==
  /\ wpc = "read"
  /\ IF fpos < Len(log)
     THEN LET n == fpos + 1
              r == SearchLine(tofind, matchings, n, log[n], 1)
          IN /\ fpos' = n
             /\ reads' = Append(reads, n)
             /\ tofind' = r.tofind
             /\ matchings' = r.matchings
             /\ IF r.returned
                THEN /\ wpc' = "done"
                     /\ outcome' = IF isStr THEN "pair" ELSE "matchings"
                     /\ result' = IF isStr THEN <<r.matchings[1]>> ELSE r.matchings
                ELSE /\ wpc' = "bottom"
                     /\ UNCHANGED <<outcome, result>>
             /\ UNCHANGED <<elapsed, eofPolls, missing>>
     ELSE /\ elapsed' = Tick(elapsed)
          /\ eofPolls' = eofPolls + 1
          /\ IF Expired(elapsed', timeout)
             THEN /\ wpc' = "done"
                  /\ outcome' = "TimeoutError"
                  /\ missing' = tofind
             ELSE /\ wpc' = "bottom"
                  /\ UNCHANGED <<outcome, missing>>
          /\ UNCHANGED <<fpos, reads, tofind, matchings, result>>
  /\ UNCHANGED <<exprs, isStr, from_mark, timeout, process, logExists, log, exitCode,
                 returncode>>

\* Lines 302-305: the check of the process at the bottom of the read loop.
CheckBottom ==
  /\ wpc = "bottom"
  /\ returncode' = Poll
  /\ IF process /\ returncode' = {0}
     THEN wpc' = "done" /\ outcome' = "None"
     ELSE wpc' = "top" /\ UNCHANGED outcome
  /\ UNCHANGED <<exprs, isStr, from_mark, timeout, process, logExists, log, exitCode,
                 fpos, tofind, matchings, reads, elapsed, eofPolls, result, missing>>

\* The steps of the call.
WatchStep == Begin \/ WaitFile \/ CheckTop \/ ReadLine \/ CheckBottom

\* The environment, while the call runs: the server creates its log file,
\* appends a line to it, exits. (What the log holds when the call begins is
\* chosen by WInit.)
CreateLog ==
  /\ wpc \notin {"start", "done"}
  /\ ~logExists
  /\ logExists' = TRUE
  /\ UNCHANGED <<exprs, isStr, from_mark, timeout, process, log, exitCode,
                 returncode, wpc, fpos, tofind, matchings, reads, elapsed, eofPolls,
                 outcome, result, missing>>

AppendLine ==
  /\ wpc \notin {"start", "done"}
  /\ logExists
  /\ Len(log) < MaxLog
  /\ \E l \in Lines : log' = Append(log, l)
  /\ UNCHANGED <<exprs, isStr, from_mark, timeout, process, logExists, exitCode,
                 returncode, wpc, fpos, tofind, matchings, reads, elapsed, eofPolls,
                 outcome, result, missing>>

ProcessExit ==
  /\ wpc # "done"
  /\ process
  /\ exitCode = {}
  /\ \E c \in {0, 1} : exitCode' = {c}
  /\ UNCHANGED <<exprs, isStr, from_mark, timeout, process, logExists, log,
                 returncode, wpc, fpos, tofind, matchings, reads, elapsed, eofPolls,
                 outcome, result, missing>>

\* ------------------------------------------------------------------ the node
\* What os.kill(pid, 0) does: returns, or raises OSError with this errno.
Probes == {"alive", "ESRCH", "EPERM", "EIO"}

\* "self.status == Status.UP or self.status == Status.DECOMMISIONNED"
Running(st) == st = UP \/ st = DECOMMISIONNED

\* __update_status's result: the new status and pid, the calls of
\* __update_config it made and whether it raised.
Upd(st, p, w, r) == [status |-> st, pid |-> p, wrote |-> w, raised |-> r]

\* A faulty refresh: with no pid, a status that is not DOWN becomes DOWN and
\* the record is written.
UpdateStatusDemotesAll(st, p, pr) ==
  IF p = {}
  THEN IF st # DOWN THEN Upd(DOWN, p, 1, FALSE) ELSE Upd(st, p, 0, FALSE)
  ELSE LET probe == pr[CHOOSE x \in p : TRUE]
           new == IF probe = "alive"
                  THEN (IF st = DOWN \/ st = UNINITIALIZED THEN UP ELSE st)
                  ELSE (IF Running(st) THEN DOWN ELSE st)
       IN IF probe = "EIO" THEN Upd(st, p, 0, TRUE)
          ELSE IF new # st
               THEN Upd(new, IF st = UP /\ new = DOWN THEN {} ELSE p, 1, FALSE)
               ELSE Upd(st, p, 0, FALSE)

\* A faulty refresh: a live process promotes a DECOMMISIONNED node as well.
UpdateStatusPromotesAll(st, p, pr) ==
  IF p = {}
  THEN Upd(IF Running(st) THEN DOWN ELSE st, p, 0, FALSE)
  ELSE LET probe == pr[CHOOSE x \in p : TRUE]
           new == IF probe = "alive"
                  THEN UP
                  ELSE (IF Running(st) THEN DOWN ELSE st)
       IN IF probe = "EIO" THEN Upd(st, p, 0, TRUE)
          ELSE IF new # st
               THEN Upd(new, IF st = UP /\ new = DOWN THEN {} ELSE p, 1, FALSE)
               ELSE Upd(st, p, 0, FALSE)

\* A faulty refresh: the pid is cleared on the way up instead of on the way down.
UpdateStatusClearsOnUp(st, p, pr) ==
  IF p = {}
  THEN Upd(IF Running(st) THEN DOWN ELSE st, p, 0, FALSE)
  ELSE LET probe == pr[CHOOSE x \in p : TRUE]
           new == IF probe = "alive"
                  THEN (IF st = DOWN \/ st = UNINITIALIZED THEN UP ELSE st)
                  ELSE (IF Running(st) THEN DOWN ELSE st)
       IN IF probe = "EIO" THEN Upd(st, p, 0, TRUE)
          ELSE IF new # st
               THEN Upd(new, IF st = DOWN /\ new = UP THEN {} ELSE p, 1, FALSE)
               ELSE Upd(st, p, 0, FALSE)

\* A faulty refresh: a failed probe demotes every status that is not DOWN.
UpdateStatusDemotesUninit(st, p, pr) ==
  IF p = {}
  THEN Upd(IF Running(st) THEN DOWN ELSE st, p, 0, FALSE)
  ELSE LET probe == pr[CHOOSE x \in p : TRUE]
           new == IF probe = "alive"
                  THEN (IF st = DOWN \/ st = UNINITIALIZED THEN UP ELSE st)
                  ELSE DOWN
       IN IF probe = "EIO" THEN Upd(st, p, 0, TRUE)
          ELSE IF new # st
               THEN Upd(new, IF st = UP /\ new = DOWN THEN {} ELSE p, 1, FALSE)
               ELSE Upd(st, p, 0, FALSE)

\* A faulty refresh: every OSError is taken as "not running".
UpdateStatusSwallows(st, p, pr) ==
  IF p = {}
  THEN Upd(IF Running(st) THEN DOWN ELSE st, p, 0, FALSE)
  ELSE LET probe == pr[CHOOSE x \in p : TRUE]
           new == IF probe = "alive"
                  THEN (IF st = DOWN \/ st = UNINITIALIZED THEN UP ELSE st)
                  ELSE (IF Running(st) THEN DOWN ELSE st)
       IN IF new # st
          THEN Upd(new, IF st = UP /\ new = DOWN THEN {} ELSE p, 1, FALSE)
          ELSE Upd(st, p, 0, FALSE)

\* Node.__update_status, on status st and pid p, with pr what a probe of each
\* pid does.
UpdateStatus(st, p, pr) ==
  IF p = {}
  THEN \* lines 860-863: no probe, no write
       Upd(IF Running(st) THEN DOWN ELSE st, p, 0, FALSE)
  ELSE LET probe == pr[CHOOSE x \in p : TRUE]
           new == IF probe = "alive"
                  THEN (IF st = DOWN \/ st = UNINITIALIZED THEN UP ELSE st)
                  ELSE (IF Running(st) THEN DOWN ELSE st)
       IN IF probe = "EIO" THEN Upd(st, p, 0, TRUE)    \* "raise err"
          ELSE IF new # st
               THEN Upd(new, IF st = UP /\ new = DOWN THEN {} ELSE p, 1, FALSE)
               ELSE Upd(st, p, 0, FALSE)

\* Node.__update_config: the record written for status st and pid p.
ConfigRecord(st, p) == [status |-> st, pid |-> p]

\* A caller that is not inside __update_status: where it is, its old_status
\* and the values __update_config has gathered.
NoRefresh == [pc |-> "idle", old |-> UNINITIALIZED, snap |-> ConfigRecord(UNINITIALIZED, {})]

\* No call of start() or stop() yet.
NoCall == [op |-> "none", pc |-> "idle", update_pid |-> FALSE, wait |-> FALSE,
           gently |-> FALSE, notice |-> FALSE, proto |-> FALSE,
           running |-> FALSE, free |-> FALSE,
           marked |-> FALSE, marks |-> <<>>, marks0 |-> <<>>,
           actedLen |-> 0, actedOwn |-> 0,
           spawned |-> FALSE, sent |-> "none", kills |-> 0,
           tries |-> 0, wait_time |-> 1, sleeps |-> <<>>, result |-> "none"]

\* The state after Node(...): save=True writes the record once.
NInit ==
  /\ status = UNINITIALIZED
  /\ pid = {}
  /\ conf = ConfigRecord(UNINITIALIZED, {})
  /\ procs = [p \in Pids |-> "ESRCH"]
  /\ pidfile = [exists |-> FALSE, content |-> {}]
  /\ last = [op |-> "new", old_status |-> UNINITIALIZED, old_pid |-> {},
             wrote |-> 1, raised |-> FALSE]
  /\ confirmed = FALSE
  /\ ret = {}
  /\ call = NoCall

\* A status refresh: is_running(), is_live() and show() begin with one.
Refresh ==
  LET u == UpdateStatus(status, pid, procs) IN
  /\ status' = u.status
  /\ pid' = u.pid
  /\ conf' = IF u.wrote > 0 THEN ConfigRecord(u.status, u.pid) ELSE conf
  /\ last' = [op |-> "refresh", old_status |-> status, old_pid |-> pid,
              wrote |-> u.wrote, raised |-> u.raised]
  /\ UNCHANGED <<procs, pidfile>>

\* Node.decommission: nodetool's outcome is not looked at.
Decommission ==
  /\ status' = DECOMMISIONNED
  /\ conf' = ConfigRecord(DECOMMISIONNED, pid)
  /\ last' = [op |-> "decommission", old_status |-> status, old_pid |-> pid,
              wrote |-> 1, raised |-> FALSE]
  /\ UNCHANGED <<pid, procs, pidfile>>

\* Node._update_pid: the pid is read from the pid file, then the status is
\* refreshed. A missing file raises NodeError, text that is no number raises
\* int()'s ValueError; both leave the node as it was.
UpdatePid ==
  IF ~pidfile.exists \/ pidfile.content = {}
  THEN /\ last' = [op |-> "update_pid", old_status |-> status, old_pid |-> pid,
                   wrote |-> 0, raised |-> TRUE]
       /\ UNCHANGED <<status, pid, conf, procs, pidfile>>
  ELSE LET u == UpdateStatus(status, pidfile.content, procs) IN
       /\ status' = u.status
       /\ pid' = u.pid
       /\ conf' = IF u.wrote > 0 THEN ConfigRecord(u.status, u.pid) ELSE conf
       /\ last' = [op |-> "update_pid", old_status |-> status, old_pid |-> pid,
                   wrote |-> u.wrote, raised |-> u.raised]
       /\ UNCHANGED <<procs, pidfile>>

\* Node.load: the node rebuilt from node.conf (save=False: nothing is written).
Load ==
  /\ status' = conf.status
  /\ pid' = conf.pid
  /\ last' = [op |-> "load", old_status |-> status, old_pid |-> pid,
              wrote |-> 0, raised |-> FALSE]
  /\ UNCHANGED <<conf, procs, pidfile>>

\* The environment: a process starts, dies or changes owner; the server writes
\* or removes its pid file.
ProcChange ==
  /\ \E p \in Pids, o \in Probes : procs' = [procs EXCEPT ![p] = o]
  /\ UNCHANGED <<status, pid, conf, pidfile, last, confirmed, ret, call>>

PidFileChange ==
  /\ \E e \in BOOLEAN, c \in {{}} \cup {{p} : p \in Pids} :
       /\ ~e => c = {}
       /\ pidfile' = [exists |-> e, content |-> c]
  /\ UNCHANGED <<status, pid, conf, procs, last, confirmed, ret, call>>

\* History: whether a probe of the recorded pid has succeeded since the pid
\* was set. setPid: the step assigns self.pid; probed: the step calls
\* os.kill(self.pid, 0).
History(setPid, probed) ==
  confirmed' = IF pid' = {} THEN FALSE
               ELSE IF probed /\ procs[CHOOSE x \in pid' : TRUE] = "alive" THEN TRUE
               ELSE IF setPid THEN FALSE
               ELSE confirmed

\* A faulty is_running(): DECOMMISIONNED is forgotten.
IsRunningValueOnlyUp(st) == st = UP
\* "return self.status == Status.UP or self.status == Status.DECOMMISIONNED"
IsRunningValue(st) == st = UP \/ st = DECOMMISIONNED

\* "return self.status == Status.UP"
IsLiveValue(st) == st = UP

\* The effect of is_running() on the node, u being what its refresh does.
IsRunningCall(u) ==
  /\ status' = u.status
  /\ pid' = u.pid
  /\ conf' = IF u.wrote > 0 THEN ConfigRecord(u.status, u.pid) ELSE conf
  /\ last' = [op |-> "is_running", old_status |-> status, old_pid |-> pid,
              wrote |-> u.wrote, raised |-> u.raised]
  /\ ret' = IF u.raised THEN {} ELSE {IsRunningValue(u.status)}
  /\ History(FALSE, pid # {})

\* Node.is_running, called when no start() or stop() is in progress.
IsRunning ==
  /\ call.pc = "idle"
  /\ IsRunningCall(UpdateStatus(status, pid, procs))
  /\ UNCHANGED <<procs, pidfile, call>>

\* Node.is_live.
IsLive ==
  LET u == UpdateStatus(status, pid, procs) IN
  /\ call.pc = "idle"
  /\ status' = u.status
  /\ pid' = u.pid
  /\ conf' = IF u.wrote > 0 THEN ConfigRecord(u.status, u.pid) ELSE conf
  /\ last' = [op |-> "is_live", old_status |-> status, old_pid |-> pid,
              wrote |-> u.wrote, raised |-> u.raised]
  /\ ret' = IF u.raised THEN {} ELSE {IsLiveValue(u.status)}
  /\ History(FALSE, pid # {})
  /\ UNCHANGED <<procs, pidfile, call>>

\* ------------------------------------------------------------ the log files
\* Two log files are modelled: this node's own and that of one peer. The one
\* a watch reads is in view (logExists, log), the other one is kept in other.
\* The patterns of the waits of start() and stop():
NowUp == "now UP"              \* "%s.* now UP" % node.address()
NowDown == "now DOWN"          \* "%s is now [dead|DOWN]" % node.address()
Listening == "listening"       \* "Starting listening for CQL clients"

\* The lines a server writes to the log of a peer and to this node's own log.
LogLines(who) == IF who = "peer" THEN {{NowUp}, {NowDown}} ELSE {{}, {Listening}}

\* The file of who, wherever it is.
File(who) ==
  IF other.who = who THEN [exists |-> other.exists, lines |-> other.lines]
  ELSE [exists |-> logExists, lines |-> log]

\* The file of who comes into view.
View(who) ==
  IF other.who = who
  THEN /\ logExists' = other.exists
       /\ log' = other.lines
       /\ other' = [who |-> IF who = "peer" THEN "own" ELSE "peer",
                    exists |-> logExists, lines |-> log]
  ELSE UNCHANGED <<logExists, log, other>>

\* A faulty mark: one line too far.
MarkLogPastEnd(f) == Len(f.lines) + 1
\* Node.mark_log: 0 without a log file, else the size of the file.
MarkLog(f) == IF ~f.exists THEN 0 ELSE Len(f.lines)

\* The orders in which a dict can hand out the nodes of S.
Orders(S) == {o \in BSeq(S, 2) : Len(o) = Cardinality(S) /\ Range(o) = S}

\* "[(node, node.mark_log()) for node in ... if node.is_running()]", over the
\* running nodes in the order o.
Marks(o) == [i \in 1..Len(o) |-> [who |-> o[i], mark |-> MarkLog(File(o[i]))]]

\* The timeout of the waits of start() and stop() (120 and 600 sleeps in the
\* code), on the scale of MaxTimeout.
WatchTimeout == MaxTimeout

\* A faulty call: the marks are not taken.
MarksNever(notice, act) == act
\* "if wait_other_notice: marks = [...]" comes before the spawn or the signal.
MarksFirst(notice, act) == IF notice THEN "marks" ELSE act

\* ---------------------------------------------------------------- start()
\* The call ends: it returns or raises r.
Ended(c, r) == [c EXCEPT !.pc = "idle", !.result = r]

\* A faulty start: the "already running" test is lost.
StartRefusedNever(running) == FALSE
\* "if self.is_running(): raise NodeError(... is already running)"
StartRefused(running) == running

\* common.check_socket_available(itf), for every interface: raises when one
\* of the endpoints is in use.
PortInUse(free) == ~free

\* Lines 351-356: the refresh, the "already running" error and the check of
\* the endpoints. update_pid, wait_other_notice (from N) and
\* wait_for_binary_proto (from P) are the caller's options, free whether
\* every endpoint is free to bind.
StartCheckOpt(N, P) ==
  /\ call.pc = "idle"
  /\ \E up \in BOOLEAN, free \in BOOLEAN, n \in N, pr \in P :
       LET u == UpdateStatus(status, pid, procs)
           c == [NoCall EXCEPT !.op = "start", !.update_pid = up, !.free = free,
                               !.notice = n, !.proto = pr,
                               !.running = ~u.raised /\ IsRunningValue(u.status)]
       IN /\ IsRunningCall(u)
          /\ call' = IF u.raised THEN Ended(c, "OSError")
                     ELSE IF StartRefused(IsRunningValue(u.status))
                          THEN Ended(c, "AlreadyRunning")
                     ELSE IF PortInUse(free) THEN Ended(c, "PortInUse")
                     ELSE [c EXCEPT !.pc = MarksFirst(n, "spawn")]
  /\ UNCHANGED <<procs, pidfile>>

\* start() with wait_other_notice and wait_for_binary_proto at their
\* default, False.
StartCheck == StartCheckOpt({FALSE}, {FALSE})

\* Lines 358-359: the marks of the running nodes of the cluster. The
\* comprehension calls is_running() on this node as well, which refreshes it;
\* peerUp is what the peer's is_running() answers.
StartMarks ==
  /\ call.pc = "marks"
  /\ call.op = "start"
  /\ LET u == UpdateStatus(status, pid, procs)
     IN /\ IsRunningCall(u)
        /\ IF u.raised
           THEN call' = Ended(call, "OSError")
           ELSE \E peerUp \in BOOLEAN :
                  \E o \in Orders((IF IsRunningValue(u.status) THEN {"own"} ELSE {})
                                    \cup (IF peerUp THEN {"peer"} ELSE {})) :
                    call' = [call EXCEPT !.marks = Marks(o), !.marks0 = Marks(o),
                                         !.marked = TRUE, !.pc = "spawn"]
  /\ UNCHANGED <<procs, pidfile>>

\* What follows the launch: the waits for the peers (lines 406-408), the wait
\* for the client protocol (lines 410-414), "return process" (line 416).
AfterLaunch(c) ==
  IF c.notice /\ c.marks # <<>> THEN [c EXCEPT !.pc = "peer_watch"]
  ELSE IF c.proto THEN [c EXCEPT !.pc = "proto_watch"]
  ELSE Ended(c, "returned")

\* Line 391: subprocess.Popen.
StartSpawn ==
  /\ call.pc = "spawn"
  /\ LET c == [call EXCEPT !.spawned = TRUE, !.actedLen = Len(File("peer").lines),
                           !.actedOwn = Len(File("own").lines)]
     IN call' = IF call.update_pid THEN [c EXCEPT !.pc = "update_pid"]
                ELSE AfterLaunch(c)
  /\ UNCHANGED <<status, pid, conf, procs, pidfile, last, confirmed, ret>>

\* A faulty readiness check: the test of is_running() is lost.
StartFailedNever(running) == FALSE
\* "if not self.is_running(): raise NodeError(Error starting node ...)"
StartFailed(running) == ~running

\* Lines 393-401: the wait for the launcher, then self._update_pid(process).
StartUpdatePid ==
  /\ call.pc = "update_pid"
  /\ UpdatePid
  /\ History(pidfile.exists /\ pidfile.content # {},
             pidfile.exists /\ pidfile.content # {})
  /\ call' = IF ~pidfile.exists THEN Ended(call, "NodeError")
             ELSE IF pidfile.content = {} THEN Ended(call, "ValueError")
             ELSE IF last'.raised THEN Ended(call, "OSError")
             ELSE [call EXCEPT !.pc = "verify"]
  /\ UNCHANGED ret

\* Lines 403-404: the readiness check.
StartVerify ==
  /\ call.pc = "verify"
  /\ LET u == UpdateStatus(status, pid, procs)
     IN /\ IsRunningCall(u)
        /\ call' = IF u.raised THEN Ended(call, "OSError")
                   ELSE IF StartFailed(IsRunningValue(u.status))
                        THEN Ended(call, "NodeError")
                   ELSE AfterLaunch(call)
  /\ UNCHANGED <<procs, pidfile>>

\* ------------------------------------------------- the waits on a log file
\* The locals of a call of watch_log_for before its first step.
WatchFresh ==
  /\ exitCode' = {} /\ returncode' = {} /\ wpc' = "start" /\ fpos' = 0
  /\ tofind' = <<>> /\ matchings' = <<>> /\ reads' = <<>> /\ elapsed' = 0
  /\ eofPolls' = 0 /\ outcome' = "pending" /\ result' = <<>> /\ missing' = <<>>

\* Lines 406-408 and 438-440: "for node, mark in marks:
\* node.watch_log_for_alive(self, from_mark=mark)" (watch_log_for_death in
\* stop()): the call of watch_log_for on the log of the next node.
PeerWatchBegin ==
  /\ call.pc = "peer_watch"
  /\ LET m == Head(call.marks)
     IN /\ View(m.who)
        /\ exprs' = <<IF call.op = "start" THEN NowUp ELSE NowDown>>
        /\ isStr' = FALSE
        /\ from_mark' = m.mark
        /\ timeout' = WatchTimeout
        /\ process' = FALSE
        /\ WatchFresh
        /\ call' = [call EXCEPT !.marks = Tail(call.marks), !.pc = "peer_watching"]
  /\ UNCHANGED <<status, pid, conf, procs, pidfile, last, confirmed, ret, thr>>

\* watch_log_for has returned or raised: its arguments and locals are gone,
\* the file stays.
WatchGone ==
  /\ exprs' = <<>> /\ isStr' = FALSE /\ from_mark' = 0 /\ timeout' = 0
  /\ process' = FALSE
  /\ WatchFresh
  /\ UNCHANGED <<logExists, log>>

\* The watch has ended: its TimeoutError ends the call; else the next node,
\* or what follows the waits for the peers.
PeerWatchEnd ==
  /\ call.pc = "peer_watching"
  /\ wpc = "done"
  /\ call' = IF outcome = "TimeoutError" THEN Ended(call, "TimeoutError")
             ELSE IF call.marks # <<>> THEN [call EXCEPT !.pc = "peer_watch"]
             ELSE IF call.op = "stop" THEN [call EXCEPT !.pc = "settle"]
             ELSE IF call.proto THEN [call EXCEPT !.pc = "proto_watch"]
             ELSE Ended(call, "returned")
  /\ WatchGone
  /\ UNCHANGED <<status, pid, conf, procs, pidfile, last, confirmed, ret>>
  /\ UNCHANGED moreVars

\* A faulty wait: from the end of the log at the spawn.
ProtoFromSpawn(c) == c.actedOwn
\* Line 411 gives no from_mark: None, and nothing is skipped.
ProtoFrom(c) == 0

\* Line 411: self.watch_log_for("Starting listening for CQL clients"): one
\* pattern given as a string, no mark, the default timeout.
ProtoWatchBegin ==
  /\ call.pc = "proto_watch"
  /\ View("own")
  /\ exprs' = <<Listening>>
  /\ isStr' = TRUE
  /\ from_mark' = ProtoFrom(call)
  /\ timeout' = WatchTimeout
  /\ process' = FALSE
  /\ WatchFresh
  /\ call' = [call EXCEPT !.pc = "proto_watching"]
  /\ UNCHANGED <<status, pid, conf, procs, pidfile, last, confirmed, ret, thr>>

\* Lines 412-416: the watch has ended; "return process".
ProtoWatchEnd ==
  /\ call.pc = "proto_watching"
  /\ wpc = "done"
  /\ call' = IF outcome = "TimeoutError" THEN Ended(call, "TimeoutError")
             ELSE Ended(call, "returned")
  /\ WatchGone
  /\ UNCHANGED <<status, pid, conf, procs, pidfile, last, confirmed, ret>>
  /\ UNCHANGED moreVars

\* A step of the watch a call of start() or stop() is waiting on.
CallWatchStep ==
  /\ call.pc \in {"peer_watching", "proto_watching"}
  /\ WatchStep
  /\ UNCHANGED <<nodeVars, moreVars>>

\* The environment: a server appends a line to its log file.
FileWrite ==
  /\ \E who \in {"own", "peer"} : \E l \in LogLines(who) :
       /\ File(who).exists
       /\ Len(File(who).lines) < (IF who = "peer" THEN MaxLog ELSE MaxOwnLog)
       /\ IF other.who = who
          THEN other' = [other EXCEPT !.lines = Append(other.lines, l)] /\ UNCHANGED log
          ELSE log' = Append(log, l) /\ UNCHANGED other
  /\ UNCHANGED <<exprs, isStr, from_mark, timeout, process, logExists, exitCode,
                 returncode, wpc, fpos, tofind, matchings, reads, elapsed, eofPolls,
                 outcome, result, missing, thr>>
  /\ UNCHANGED nodeVars

\* ----------------------------------------------------------------- stop()
StopTries == 7

\* A faulty stop(): SIGKILL whatever the caller asked for.
SignalAlwaysKill(gently) == "SIGKILL"
\* Lines 433-436: SIGTERM "if gently", else SIGKILL.
Signal(gently) == IF gently THEN "SIGTERM" ELSE "SIGKILL"

\* A faulty retry loop: the wait time is not doubled.
NextWaitSame(w) == w
\* "wait_time_sec = wait_time_sec * 2"
NextWait(w) == w * 2

\* A faulty stop(): it goes on whatever is_running() says.
StopSkippedNever(running) == FALSE
\* "if self.is_running(): ... else: return False"
StopSkipped(running) == ~running

\* A faulty stop(): it never waits for the process to end.
KeepsWaitingNever(running, wait) == FALSE
\* "if still_running and wait:"
KeepsWaiting(running, wait) == running /\ wait

\* Line 428: the refresh; a node that is not running makes stop() return
\* False. wait, gently and wait_other_notice (from N) are the caller's options.
StopCheckOpt(N) ==
  /\ call.pc = "idle"
  /\ \E w \in BOOLEAN, g \in BOOLEAN, n \in N :
       LET u == UpdateStatus(status, pid, procs)
           c == [NoCall EXCEPT !.op = "stop", !.wait = w, !.gently = g, !.notice = n,
                               !.running = ~u.raised /\ IsRunningValue(u.status)]
       IN /\ IsRunningCall(u)
          /\ call' = IF u.raised THEN Ended(c, "OSError")
                     ELSE IF StopSkipped(IsRunningValue(u.status)) THEN Ended(c, "False")
                     ELSE [c EXCEPT !.pc = MarksFirst(n, "signal")]
  /\ UNCHANGED <<procs, pidfile>>

\* stop() with wait_other_notice at its default, False.
StopCheck == StopCheckOpt({FALSE})

\* Lines 429-431: the marks of the running peers. "node.is_running() and
\* node is not self" calls is_running() on this node too, which refreshes it.
StopMarks ==
  /\ call.pc = "marks"
  /\ call.op = "stop"
  /\ LET u == UpdateStatus(status, pid, procs)
     IN /\ IsRunningCall(u)
        /\ IF u.raised
           THEN call' = Ended(call, "OSError")
           ELSE \E peerUp \in BOOLEAN :
                  \E o \in Orders(IF peerUp THEN {"peer"} ELSE {}) :
                    call' = [call EXCEPT !.marks = Marks(o), !.marks0 = Marks(o),
                                         !.marked = TRUE, !.pc = "signal"]
  /\ UNCHANGED <<procs, pidfile>>

\* Lines 433-436: os.kill(self.pid, SIGTERM or SIGKILL). It raises TypeError
\* for a pid of None and OSError when the process cannot be signalled. Then
\* the waits for the peers (lines 438-440) or the sleep of line 443.
StopSignal ==
  /\ call.pc = "signal"
  /\ call' = IF pid = {} THEN Ended(call, "TypeError")
             ELSE IF procs[CHOOSE x \in pid : TRUE] # "alive"
                  THEN Ended([call EXCEPT !.kills = call.kills + 1,
                                          !.actedLen = Len(File("peer").lines)],
                             "OSError")
             ELSE [call EXCEPT !.sent = Signal(call.gently),
                               !.kills = call.kills + 1,
                               !.actedLen = Len(File("peer").lines),
                               !.pc = IF call.notice /\ call.marks # <<>>
                                      THEN "peer_watch" ELSE "settle"]
  /\ UNCHANGED <<status, pid, conf, procs, pidfile, last, confirmed, ret>>

\* Lines 445-446 and 457: "still_running = self.is_running()".
StopSettle ==
  /\ call.pc = "settle"
  /\ LET u == UpdateStatus(status, pid, procs)
     IN /\ IsRunningCall(u)
        /\ call' = IF u.raised THEN Ended(call, "OSError")
                   ELSE IF KeepsWaiting(IsRunningValue(u.status), call.wait)
                        THEN [call EXCEPT !.pc = "poll"]
                   ELSE Ended(call, "True")
  /\ UNCHANGED <<procs, pidfile>>

\* Lines 448-455: one turn of "for i in xrange(0, 7)": the sleep, the test
\* of is_running() and the doubling of the wait time; after the last turn
\* the NodeError.
StopPoll ==
  /\ call.pc = "poll"
  /\ LET u == UpdateStatus(status, pid, procs)
         c == [call EXCEPT !.tries = call.tries + 1,
                           !.sleeps = Append(call.sleeps, call.wait_time)]
     IN /\ IsRunningCall(u)
        /\ call' = IF u.raised THEN Ended(c, "OSError")
                   ELSE IF ~IsRunningValue(u.status) THEN Ended(c, "True")
                   ELSE IF c.tries = StopTries
                        THEN Ended([c EXCEPT !.wait_time = NextWait(call.wait_time)],
                                   "NodeError")
                   ELSE [c EXCEPT !.wait_time = NextWait(call.wait_time)]
  /\ UNCHANGED <<procs, pidfile>>

\* ------------------------------------------------------------ specifications
\* No call of watch_log_for in progress.
WIdle ==
  /\ exprs = <<>> /\ isStr = FALSE /\ from_mark = 0 /\ timeout = 0
  /\ process = FALSE /\ logExists = FALSE /\ log = <<>> /\ exitCode = {}
  /\ returncode = {} /\ wpc = "start" /\ fpos = 0 /\ tofind = <<>>
  /\ matchings = <<>> /\ reads = <<>> /\ elapsed = 0 /\ eofPolls = 0
  /\ outcome = "pending" /\ result = <<>> /\ missing = <<>>

\* No other log file written yet, no concurrent caller.
MIdle ==
  /\ other = [who |-> "own", exists |-> FALSE, lines |-> <<>>]
  /\ thr = [c \in Callers |-> NoRefresh]

\* One call of watch_log_for and the environment it reads.
Init == WInit /\ NInit /\ MIdle

Next ==
  \/ (Begin /\ UNCHANGED <<nodeVars, moreVars>>)
  \/ (WaitFile /\ UNCHANGED <<nodeVars, moreVars>>)
  \/ (CheckTop /\ UNCHANGED <<nodeVars, moreVars>>)
  \/ (ReadLine /\ UNCHANGED <<nodeVars, moreVars>>)
  \/ (CheckBottom /\ UNCHANGED <<nodeVars, moreVars>>)
  \/ (CreateLog /\ UNCHANGED <<nodeVars, moreVars>>)
  \/ (AppendLine /\ UNCHANGED <<nodeVars, moreVars>>)
  \/ (ProcessExit /\ UNCHANGED <<nodeVars, moreVars>>)

Spec == Init /\ [][Next]_vars

\* The status and pid of one node under its operations.
NodeInit == NInit /\ WIdle /\ MIdle

\* The file was read and holds a number.
PidRead == pidfile.exists /\ pidfile.content # {}

NodeNext ==
  \/ (Refresh /\ History(FALSE, pid # {}) /\ UNCHANGED <<ret, call>> /\ UNCHANGED <<watchVars, moreVars>>)
  \/ (Decommission /\ History(FALSE, FALSE) /\ UNCHANGED <<ret, call>> /\ UNCHANGED <<watchVars, moreVars>>)
  \/ (UpdatePid /\ History(PidRead, PidRead) /\ UNCHANGED <<ret, call>> /\ UNCHANGED <<watchVars, moreVars>>)
  \/ (Load /\ History(TRUE, FALSE) /\ UNCHANGED <<ret, call>> /\ UNCHANGED <<watchVars, moreVars>>)
  \/ (IsRunning /\ UNCHANGED <<watchVars, moreVars>>)
  \/ (IsLive /\ UNCHANGED <<watchVars, moreVars>>)
  \/ (ProcChange /\ UNCHANGED <<watchVars, moreVars>>)
  \/ (PidFileChange /\ UNCHANGED <<watchVars, moreVars>>)

NodeSpec == NodeInit /\ [][NodeNext]_vars

\* One node under start(), stop(), the refreshes and decommission(), one
\* call at a time, with the processes and the pid file changing at any time.
LifeNext ==
  \/ (call.pc = "idle" /\ Refresh /\ History(FALSE, pid # {}) /\ UNCHANGED <<ret, call>>
        /\ UNCHANGED <<watchVars, moreVars>>)
  \/ (call.pc = "idle" /\ Decommission /\ History(FALSE, FALSE) /\ UNCHANGED <<ret, call>>
        /\ UNCHANGED <<watchVars, moreVars>>)
  \/ (IsRunning /\ UNCHANGED <<watchVars, moreVars>>)
  \/ (IsLive /\ UNCHANGED <<watchVars, moreVars>>)
  \/ (StartCheck /\ UNCHANGED <<watchVars, moreVars>>)
  \/ (StartSpawn /\ UNCHANGED <<watchVars, moreVars>>)
  \/ (StartUpdatePid /\ UNCHANGED <<watchVars, moreVars>>)
  \/ (StartVerify /\ UNCHANGED <<watchVars, moreVars>>)
  \/ (StopCheck /\ UNCHANGED <<watchVars, moreVars>>)
  \/ (StopSignal /\ UNCHANGED <<watchVars, moreVars>>)
  \/ (StopSettle /\ UNCHANGED <<watchVars, moreVars>>)
  \/ (StopPoll /\ UNCHANGED <<watchVars, moreVars>>)
  \/ (ProcChange /\ UNCHANGED <<watchVars, moreVars>>)
  \/ (PidFileChange /\ UNCHANGED <<watchVars, moreVars>>)

LifeSpec == NodeInit /\ [][LifeNext]_vars

\* The environment is followed only where the call looks at it next: a
\* change made earlier and one made just before the step that reads it give
\* that step the same state. ProbeNext: the next step of the call probes or
\* signals a pid. FileNext: the call has marks to take or a watch to end.
ProbeNext == call.pc \in {"idle", "marks", "update_pid", "verify", "signal", "settle", "poll"}
FileNext ==
  /\ call.pc \in {"marks", "spawn", "signal", "update_pid", "verify",
                  "peer_watch", "peer_watching", "proto_watch", "proto_watching"}
  /\ call.notice \/ call.proto

\* One node and one peer under start() and stop() with all their options,
\* with the processes, the pid file and the two log files changing at any
\* time.
ClusterNext ==
  \/ (StartCheckOpt(BOOLEAN, BOOLEAN) /\ UNCHANGED <<watchVars, moreVars>>)
  \/ (StartMarks /\ UNCHANGED <<watchVars, moreVars>>)
  \/ (StartSpawn /\ UNCHANGED <<watchVars, moreVars>>)
  \/ (StartUpdatePid /\ UNCHANGED <<watchVars, moreVars>>)
  \/ (StartVerify /\ UNCHANGED <<watchVars, moreVars>>)
  \/ PeerWatchBegin
  \/ PeerWatchEnd
  \/ ProtoWatchBegin
  \/ ProtoWatchEnd
  \/ CallWatchStep
  \/ (StopCheckOpt(BOOLEAN) /\ UNCHANGED <<watchVars, moreVars>>)
  \/ (StopMarks /\ UNCHANGED <<watchVars, moreVars>>)
  \/ (StopSignal /\ UNCHANGED <<watchVars, moreVars>>)
  \/ (StopSettle /\ UNCHANGED <<watchVars, moreVars>>)
  \/ (StopPoll /\ UNCHANGED <<watchVars, moreVars>>)
  \/ (ProbeNext /\ ProcChange /\ procs' \in [Pids -> {"alive", "ESRCH"}]
        /\ UNCHANGED <<watchVars, moreVars>>)
  \/ (call.pc = "update_pid" /\ PidFileChange /\ UNCHANGED <<watchVars, moreVars>>)
  \/ (FileNext /\ FileWrite)

\* Both servers have run before: their log files exist.
ClusterInit ==
  /\ NInit
  /\ exprs = <<>> /\ isStr = FALSE /\ from_mark = 0 /\ timeout = 0
  /\ process = FALSE /\ logExists = TRUE /\ log = <<>> /\ exitCode = {}
  /\ returncode = {} /\ wpc = "start" /\ fpos = 0 /\ tofind = <<>>
  /\ matchings = <<>> /\ reads = <<>> /\ elapsed = 0 /\ eofPolls = 0
  /\ outcome = "pending" /\ result = <<>> /\ missing = <<>>
  /\ other = [who |-> "own", exists |-> TRUE, lines |-> <<>>]
  /\ thr = [c \in Callers |-> NoRefresh]

ClusterSpec == ClusterInit /\ [][ClusterNext]_vars

\* ------------------------------------------- concurrent status refreshes
\* __update_status called by several threads on one Node object, statement
\* by statement: the code takes no lock.

\* Lines 860-865: without a pid the status is demoted and the call returns;
\* else "old_status = self.status".
RBegin(c) ==
  /\ thr[c].pc = "idle"
  /\ IF pid = {}
     THEN /\ status' = IF Running(status) THEN DOWN ELSE status
          /\ UNCHANGED thr
     ELSE /\ thr' = [thr EXCEPT ![c] = [@ EXCEPT !.pc = "probe", !.old = status]]
          /\ UNCHANGED status
  /\ UNCHANGED <<pid, conf, procs>>

\* Lines 866-882: os.kill(self.pid, 0) and the assignment of the status. A
\* pid cleared by another caller makes os.kill raise TypeError.
RProbe(c) ==
  /\ thr[c].pc = "probe"
  /\ IF pid = {}
     THEN /\ thr' = [thr EXCEPT ![c] = NoRefresh]
          /\ UNCHANGED status
     ELSE LET probe == procs[CHOOSE x \in pid : TRUE] IN
          IF probe = "EIO"
          THEN /\ thr' = [thr EXCEPT ![c] = NoRefresh]
               /\ UNCHANGED status
          ELSE /\ status' = IF probe = "alive"
                            THEN (IF status = DOWN \/ status = UNINITIALIZED THEN UP ELSE status)
                            ELSE (IF Running(status) THEN DOWN ELSE status)
               /\ thr' = [thr EXCEPT ![c] = [@ EXCEPT !.pc = "compare"]]
  /\ UNCHANGED <<pid, conf, procs>>

\* Lines 884-886: "if not old_status == self.status", the pid cleared on
\* UP -> DOWN.
RCompare(c) ==
  /\ thr[c].pc = "compare"
  /\ IF thr[c].old # status
     THEN /\ pid' = IF thr[c].old = UP /\ status = DOWN THEN {} ELSE pid
          /\ thr' = [thr EXCEPT ![c] = [@ EXCEPT !.pc = "values"]]
     ELSE /\ thr' = [thr EXCEPT ![c] = NoRefresh]
          /\ UNCHANGED pid
  /\ UNCHANGED <<status, conf, procs>>

\* Lines 744-760 of __update_config: the values are gathered.
RValues(c) ==
  /\ thr[c].pc = "values"
  /\ thr' = [thr EXCEPT ![c] = [@ EXCEPT !.pc = "dump", !.snap = ConfigRecord(status, pid)]]
  /\ UNCHANGED <<status, pid, conf, procs>>

\* Lines 763-764 of __update_config: node.conf is written.
RDump(c) ==
  /\ thr[c].pc = "dump"
  /\ conf' = thr[c].snap
  /\ thr' = [thr EXCEPT ![c] = NoRefresh]
  /\ UNCHANGED <<status, pid, procs>>

\* The rest of the node is not touched by a refresh.
ConcFrame == UNCHANGED <<pidfile, last, confirmed, ret, call, other, watchVars>>

ConcNext ==
  \/ (\E c \in Callers : RBegin(c) /\ ConcFrame)
  \/ (\E c \in Callers : RProbe(c) /\ ConcFrame)
  \/ (\E c \in Callers : RCompare(c) /\ ConcFrame)
  \/ (\E c \in Callers : RValues(c) /\ ConcFrame)
  \/ (\E c \in Callers : RDump(c) /\ ConcFrame)
  \/ (ProcChange /\ UNCHANGED <<watchVars, moreVars>>)

\* A node that was started before: a pid is recorded and node.conf agrees
\* with the object.
ConcInit ==
  /\ WIdle
  /\ MIdle
  /\ status \in Status
  /\ pid \in {{p} : p \in Pids}
  /\ conf = ConfigRecord(status, pid)
  /\ procs = [p \in Pids |-> "ESRCH"]
  /\ pidfile = [exists |-> FALSE, content |-> {}]
  /\ last = [op |-> "new", old_status |-> UNINITIALIZED, old_pid |-> {},
             wrote |-> 1, raised |-> FALSE]
  /\ confirmed = FALSE
  /\ ret = {}
  /\ call = NoCall

ConcSpec == ConcInit /\ [][ConcNext]_vars

\* The call keeps taking its steps; the environment need not act.
FairSpec == Spec /\ WF_vars(WatchStep /\ UNCHANGED <<nodeVars, moreVars>>)

\* ------------------------------------------------------- watch_log_for: claims
\* The lines read since the mark, and whether one of them matches p.
LinesRead == (from_mark + 1)..fpos
MatchedSince(p) == \E n \in LinesRead : p \in log[n]
\* The first line read since the mark that matches p (when there is one).
FirstLine(p) == CHOOSE n \in LinesRead : p \in log[n] /\ \A k \in LinesRead : p \in log[k] => n <= k

\* C1: a successful result is returned only once every pattern of the set has
\* matched some line read at or after the mark, and it holds exactly one
\* (line, match) pair per pattern, each pair a line read since the mark that
\* the pattern matches.
C1_SuccessHasEveryPattern ==
  outcome \in {"matchings", "pair"} =>
    /\ tofind = <<>>
    /\ \A p \in Range(exprs) : MatchedSince(p)
    /\ Len(result) = Len(exprs)
    /\ \A p \in Range(exprs) : Cardinality({i \in 1..Len(result) : result[i].pat = p}) = 1
    /\ \A i \in 1..Len(result) :
         result[i].line \in LinesRead /\ result[i].pat \in log[result[i].line]

\* Two patterns found on different lines.
C1_Witness ==
  /\ outcome = "matchings"
  /\ Len(exprs) = 2
  /\ result[1].line # result[2].line

\* C2: every line read is tested against every still-unmatched pattern: a
\* pattern that some line read since the mark matches is no longer in tofind,
\* and its match is taken from the first such line.
C2_EveryPatternTestedOnEveryLine ==
  \A p \in Range(exprs) :
    MatchedSince(p) =>
      /\ p \notin Range(tofind)
      /\ \E i \in 1..Len(matchings) :
           matchings[i].pat = p /\ matchings[i].line = FirstLine(p)

\* C3: the patterns a TimeoutError reports as missing are exactly the patterns
\* that no line read since the mark matches.
C3_MissingAreTheUnmatched ==
  outcome = "TimeoutError" =>
    Range(missing) = {p \in Range(exprs) : ~MatchedSince(p)}

\* C4: elapsed grows by one per poll that finds no line; the TimeoutError is
\* never raised while elapsed <= timeout and is raised on the first poll where
\* elapsed > timeout.
C4_TimeoutOnlyAfterDeadline ==
  /\ elapsed = eofPolls
  /\ outcome = "TimeoutError" => elapsed = timeout + 1
  /\ outcome # "TimeoutError" => elapsed <= timeout

C4_Witness ==
  /\ outcome = "TimeoutError"
  /\ timeout > 0
  /\ Len(reads) > 0

\* C5: once a poll has seen the process exited with code 0 while patterns are
\* still unmatched, the call returns None and raises no error.
C5_ZeroExitReturnsNone ==
  (wpc = "done" /\ returncode = {0}) => outcome = "None"

\* C6: once a poll has seen a non-zero exit code the call reads no further line
\* and fails with the process-failure error (a RuntimeError) at its next check
\* at the top of a loop, also when some patterns had matched.
C6_NonZeroExitFails ==
  (returncode # {} /\ returncode # {0}) =>
    /\ wpc \in {"top", "done"}
    /\ wpc = "done" => outcome = "RuntimeError"

C6_Witness ==
  /\ outcome = "RuntimeError"
  /\ Len(matchings) > 0
  /\ Len(tofind) > 0

\* C7: while the call polls for a log file that does not exist yet, a poll that
\* sees exit code 0 ends the call (with None): the call is never still waiting
\* for the file with a zero returncode.
C7_ZeroExitEndsFileWait ==
  wpc = "wait_file" => returncode # {0}

\* C8: every call (each has a finite timeout) eventually returns or raises.
C8_CallEnds == <>(wpc = "done")

\* ------------------------------------------------------------ the node: claims
\* C9: a status refresh writes the configuration record exactly once when it
\* changes the status and never when it leaves the status unchanged.
C9_RefreshWritesOncePerTransition ==
  last.op = "refresh" =>
    last.wrote = (IF last.old_status # status THEN 1 ELSE 0)

\* C10 (as claimed): refreshing a node whose pid is unset and whose status is
\* UNINITIALIZED moves the status to DOWN, writes the record once and raises
\* no error.
C10_UninitializedBecomesDown ==
  (last.op = "refresh" /\ last.old_pid = {} /\ last.old_status = UNINITIALIZED) =>
    (status = DOWN /\ last.wrote = 1 /\ ~last.raised)

\* C10 (amended): refreshing a node whose pid is unset and whose status is
\* UNINITIALIZED leaves the status UNINITIALIZED and the pid unset, writes
\* nothing and raises no error.
C10_UninitializedStays ==
  (last.op = "refresh" /\ last.old_pid = {} /\ last.old_status = UNINITIALIZED) =>
    (status = UNINITIALIZED /\ pid = {} /\ last.wrote = 0 /\ ~last.raised)

C10_Witness ==
  /\ last.op = "refresh"
  /\ last.old_pid = {}
  /\ last.old_status = UNINITIALIZED
  /\ pidfile.exists

\* The operations that refresh the status, and those that probe the pid.
RefreshOps == {"refresh", "is_running", "is_live"}
ProbeOps == RefreshOps \cup {"update_pid"}
ThePid(p) == CHOOSE x \in p : TRUE
\* A step of an operation of the node (under NodeSpec): not one of the
\* environment.
NodeOpStep == procs' = procs /\ pidfile' = pidfile

\* C11: the status becomes UP only in a refresh whose probe of the recorded
\* pid succeeds while the status is DOWN or UNINITIALIZED, and that refresh
\* writes the record once; a successful probe leaves DECOMMISIONNED as it is.
C11_UpOnlyByProbe ==
  [][ /\ (status' = UP /\ status # UP) =>
           /\ status \in {DOWN, UNINITIALIZED}
           /\ last'.op \in ProbeOps
           /\ last'.wrote = 1
           /\ pid' # {}
           /\ procs[ThePid(pid')] = "alive"
           /\ conf' = ConfigRecord(UP, pid')
      /\ (NodeOpStep /\ last'.op \in ProbeOps /\ status = DECOMMISIONNED
            /\ pid' # {} /\ procs[ThePid(pid')] = "alive") =>
           status' = DECOMMISIONNED
    ]_vars

C11_Witness ==
  /\ status = UP
  /\ last.op \in RefreshOps
  /\ last.old_status = DOWN
  /\ last.wrote = 1

\* C12: every transition of the status from UP or from DECOMMISIONNED to DOWN
\* clears the recorded pid.
C12_DownClearsPid ==
  [][ (status \in {UP, DECOMMISIONNED} /\ status' = DOWN) => pid' = {} ]_vars

\* C13: under start, stop, the refreshes and decommission, status UP implies
\* that a pid is recorded.
C13_UpHasPid == status = UP => pid # {}

C13_Witness ==
  /\ status = UP
  /\ call.op = "stop"
  /\ call.result = "NodeError"

\* C14: between calls of start() and stop(), a recorded pid has been
\* confirmed by a successful probe at some point since it was set.
C14_PidWasConfirmed == (call.pc = "idle" /\ pid # {}) => confirmed

\* C15: the status becomes DECOMMISIONNED only by decommission() on a node
\* whose status is UP.
C15_DecommissionOnlyFromUp ==
  [][ (status' = DECOMMISIONNED /\ status # DECOMMISIONNED) =>
        (status = UP /\ last'.op = "decommission") ]_vars

\* C16 (as claimed): a refresh of an UNINITIALIZED node with a recorded pid
\* whose probe fails (no such process, permission denied) sets the status to
\* DOWN.
C16_UninitializedProbeFailsDown ==
  [][ (NodeOpStep /\ last'.op \in RefreshOps /\ status = UNINITIALIZED /\ pid # {}
         /\ procs[ThePid(pid)] \in {"ESRCH", "EPERM"}) =>
        status' = DOWN ]_vars

\* C16 (amended): such a refresh leaves the status UNINITIALIZED, keeps the
\* pid and writes nothing.
C16_UninitializedProbeFailsStays ==
  [][ (NodeOpStep /\ last'.op \in RefreshOps /\ status = UNINITIALIZED /\ pid # {}
         /\ procs[ThePid(pid)] \in {"ESRCH", "EPERM"}) =>
        (status' = UNINITIALIZED /\ pid' = pid /\ conf' = conf
           /\ last'.wrote = 0 /\ ~last'.raised) ]_vars

C16_Witness ==
  /\ last.op \in RefreshOps
  /\ last.old_status = UNINITIALIZED
  /\ last.old_pid # {}
  /\ ~last.raised
  /\ status = UNINITIALIZED

\* C17: is_running() and is_live() answer from the status their refresh
\* left: is_running() is true exactly for UP or DECOMMISIONNED, is_live()
\* exactly for UP.
C17_AnswersFromRefreshedStatus ==
  /\ (last.op = "is_running" /\ ~last.raised) =>
       ret = {status = UP \/ status = DECOMMISIONNED}
  /\ (last.op = "is_live" /\ ~last.raised) => ret = {status = UP}
  /\ (last.op \in {"is_running", "is_live"} /\ last.raised) => ret = {}

\* is_running() answered True for a DECOMMISIONNED node.
C17_Witness ==
  /\ last.op = "is_running"
  /\ last.old_status = DECOMMISIONNED
  /\ status = DECOMMISIONNED
  /\ ret = {TRUE}

\* C18: a probe that fails with another error makes the refresh raise it,
\* with status, pid and the configuration record unchanged.
C18_OtherProbeErrorRaises ==
  [][ (NodeOpStep /\ last'.op \in RefreshOps /\ pid # {}
         /\ procs[ThePid(pid)] = "EIO") =>
        (last'.raised /\ status' = status /\ pid' = pid /\ conf' = conf
           /\ last'.wrote = 0) ]_vars

C18_Witness ==
  /\ last.op \in RefreshOps
  /\ last.raised
  /\ status = UP

\* C19: start() spawns the process only when its refresh found the node not
\* running and every endpoint is free; otherwise it raises and spawns nothing.
C19_SpawnOnlyWhenStoppedAndFree ==
  call.op = "start" =>
    /\ call.spawned => (~call.running /\ call.free)
    /\ call.running => (call.result = "AlreadyRunning" /\ call.pc = "idle")
    /\ (~call.running /\ ~call.free /\ call.result # "OSError") =>
         (call.result = "PortInUse" /\ call.pc = "idle")
    /\ call.result \in {"AlreadyRunning", "PortInUse"} => ~call.spawned

C19_Witness ==
  /\ call.op = "start"
  /\ call.result = "AlreadyRunning"
  /\ status = UP
  /\ ~call.spawned

\* C20: with update_pid, start() returns only from its readiness check and
\* only when that check's refresh left the node UP with its pid recorded; it
\* raises NodeError when the pid file is missing or the refreshed node is not
\* running.
C20_StartReturnsOnlyWhenRunning ==
  [][ /\ (call.pc # "idle" /\ call.op = "start" /\ call.update_pid
            /\ call'.result = "returned") =>
           (call.pc = "verify" /\ status' = UP /\ pid' # {} /\ ret' = {TRUE})
      /\ (call.pc = "update_pid" /\ NodeOpStep /\ call' # call /\ ~pidfile.exists) =>
           (call'.pc = "idle" /\ call'.result = "NodeError")
      /\ (call.pc = "verify" /\ call' # call /\ ~last'.raised
            /\ status' \notin {UP, DECOMMISIONNED}) =>
           (call'.pc = "idle" /\ call'.result = "NodeError")
    ]_vars

C20_Witness ==
  /\ call.op = "start"
  /\ call.update_pid
  /\ call.result = "returned"
  /\ status = UP
  /\ last.op = "is_running"

\* ------------------------------------------------------------ cluster: claims
\* The lines of who's log after the mark m that match the pattern p.
MatchAfter(who, m, p) == {n \in (m + 1)..Len(File(who).lines) : p \in File(who).lines[n]}

\* C21: with wait_other_notice the marks are taken before the process is
\* spawned (start) or the signal is sent (stop), so no mark of a peer lies
\* beyond the end of that peer's log at the time of the action.
C21_MarksBeforeAction ==
  (call.notice /\ (call.spawned \/ call.kills > 0)) =>
    /\ call.marked
    /\ \A i \in 1..Len(call.marks0) :
         call.marks0[i].who = "peer" => call.marks0[i].mark <= call.actedLen

\* A line was written to the peer's log after the spawn; the mark is not 0.
C21_Witness ==
  /\ call.op = "start"
  /\ call.notice
  /\ call.spawned
  /\ call.marks0 # <<>>
  /\ call.marks0[1].who = "peer"
  /\ call.marks0[1].mark > 0
  /\ Len(File("peer").lines) > call.actedLen

\* C22: with wait_other_notice, start() (stop()) returns normally only when
\* the log of every node marked holds, after its mark, a line matching "now
\* UP" ("now DOWN"); a TimeoutError comes from a wait only.
C22_ReturnsAfterPeerNotice ==
  /\ (call.op = "start" /\ call.notice /\ call.pc = "idle" /\ call.result = "returned") =>
       \A i \in 1..Len(call.marks0) :
         MatchAfter(call.marks0[i].who, call.marks0[i].mark, NowUp) # {}
  /\ (call.op = "stop" /\ call.notice /\ (call.pc \in {"settle", "poll"}
        \/ (call.pc = "idle" /\ call.result \in {"True", "NodeError"}))) =>
       \A i \in 1..Len(call.marks0) :
         MatchAfter(call.marks0[i].who, call.marks0[i].mark, NowDown) # {}
  /\ call.result = "TimeoutError" => (call.notice \/ call.proto)

\* start() has returned; the peer's log holds a line before the mark too.
C22_Witness ==
  /\ call.op = "start"
  /\ call.notice
  /\ call.pc = "idle"
  /\ call.result = "returned"
  /\ call.marks0 # <<>>
  /\ call.marks0[1].mark > 0

\* C23: stop() on a node its refresh reports as not running returns False,
\* sends no signal, takes no mark and watches no log.
C23_StopNotRunningIsNoOp ==
  (call.op = "stop" /\ ~call.running /\ call.result # "OSError") =>
    /\ call.pc = "idle"
    /\ call.result = "False"
    /\ call.kills = 0
    /\ call.sent = "none"
    /\ ~call.marked
    /\ call.marks0 = <<>>
    /\ wpc = "start"
    /\ exprs = <<>>

C23_Witness ==
  /\ call.op = "stop"
  /\ call.notice
  /\ call.wait
  /\ call.result = "False"
  /\ pid # {}

\* C24: stop(wait=True) polls at most 7 times, after sleeps of 1, 2, 4, ...,
\* 64; it returns True at the first poll that finds the node not running and
\* raises NodeError when the 7th poll finds it running.
C24_StopPollsSevenTimes ==
  [][ /\ call'.op = "stop" =>
           /\ call'.tries <= 7
           /\ Len(call'.sleeps) = call'.tries
           /\ \A i \in 1..Len(call'.sleeps) : call'.sleeps[i] = 2^(i - 1)
           /\ call'.tries > 0 => call'.wait
           /\ call'.result = "NodeError" => call'.tries = 7
      /\ (call.pc = "poll" /\ call' # call /\ ~last'.raised) =>
           IF status' \notin {UP, DECOMMISIONNED}
           THEN call'.pc = "idle" /\ call'.result = "True"
           ELSE IF call'.tries = 7
                THEN call'.pc = "idle" /\ call'.result = "NodeError"
                ELSE call'.pc = "poll"
    ]_vars

C24_Witness ==
  /\ call.op = "stop"
  /\ call.result = "NodeError"
  /\ call.tries = 7
  /\ call.sleeps[7] = 64

\* C25: one call of stop() on a running node sends one signal: SIGTERM when
\* gently, SIGKILL when not; the retry loop sends none.
C25_OneSignal ==
  call.op = "stop" =>
    /\ call.kills <= 1
    /\ call.sent # "none" =>
         (call.kills = 1 /\ call.sent = (IF call.gently THEN "SIGTERM" ELSE "SIGKILL"))
    /\ (call.pc \in {"peer_watch", "peer_watching", "settle", "poll"}
          \/ call.result \in {"True", "NodeError", "TimeoutError"}) =>
         (call.running /\ call.kills = 1 /\ call.sent # "none")

C25_Witness ==
  /\ call.op = "stop"
  /\ call.result = "NodeError"
  /\ ~call.gently
  /\ call.sent = "SIGKILL"
  /\ call.kills = 1

\* C28: the wait for the client protocol reads this node's log from its
\* first line, with no mark; start() returns from it only when the log holds
\* a "listening" line, wherever it is.
C28_ProtoWaitFromFileStart ==
  /\ call.pc = "proto_watching" =>
       (from_mark = 0 /\ exprs = <<Listening>> /\ other.who = "peer"
          /\ (wpc \in {"top", "read", "bottom"} => fpos <= Len(log)))
  /\ (call.op = "start" /\ call.proto /\ call.pc = "idle" /\ call.result = "returned") =>
       MatchAfter("own", 0, Listening) # {}

\* start() has returned from the wait and the log has no line that was not
\* there at the spawn.
C28_Witness ==
  /\ call.op = "start"
  /\ call.proto
  /\ call.pc = "idle"
  /\ call.result = "returned"
  /\ call.actedOwn > 0
  /\ Len(File("own").lines) = call.actedOwn

\* C29: stop() returns True, not False, when the node was running at entry
\* and no error is raised; with wait the True comes with a refresh that
\* found the node not running.
C29_StopReturnsTrue ==
  [][ /\ (call'.op = "stop" /\ call'.pc = "idle") =>
           /\ call'.result = "True" => call'.running
           /\ call'.running => call'.result # "False"
      /\ (call.op = "stop" /\ call.pc # "idle" /\ call'.pc = "idle"
            /\ call'.result = "True" /\ call.wait) =>
           status' \notin {UP, DECOMMISIONNED}
    ]_vars

\* True without wait, and the refresh after the signal found the node running.
C29_Witness ==
  /\ call.op = "stop"
  /\ call.pc = "idle"
  /\ call.result = "True"
  /\ ~call.wait
  /\ status = UP
  /\ ret = {TRUE}

C27_ZeroExitOnlyAtEof ==
  (wpc = "done" /\ outcome = "None" /\ Len(exprs) > 0) =>
    (eofPolls > 0 \/ fpos = Len(log))

\* C26: concurrent refreshes are serialized around the write of node.conf:
\* no two callers are between the comparison of the status and the end of
\* the write at the same time.
C26_WritesSerialized ==
  Cardinality({c \in Callers : thr[c].pc \in {"values", "dump"}}) <= 1

=============================================================================
